---- MODULE Spec2Model ----
(***************************************************************************)
(* Model of src/api/transcription/whisper/app.py: the WhisperTranscriber   *)
(* service (get_duration, segment_embedding, transcribe_with_diarization,  *)
(* time) and the /transcribe endpoint that calls it.                       *)
(*                                                                         *)
(* Times are counted in ticks, TicksPerSec ticks to the second, so that    *)
(* fractional seconds and Python's round() are representable.  Strings are *)
(* sequences of one-character strings, so that slicing, concatenation and  *)
(* strip() are computed as Python computes them.                           *)
(***************************************************************************)
EXTENDS Integers, Sequences, FiniteSets, TLC

VARIABLES
    pipe,             \* self.pipe: "loaded" or "None"
    embedding_model,  \* self.embedding_model: "loaded" or "None"
    pc,               \* position of the request being served
    audio_path,       \* the recording behind temp_file.name
    temp_file,        \* "none", "exists" or "unlinked"
    segments,         \* result["chunks"], with the "speaker" key once set
    embeddings,       \* the embeddings matrix, one row per segment
    i,                \* number of loop iterations completed in the running loop
    labels,           \* clustering.labels_
    result_text,      \* result_text of transcribe_with_diarization
    blocks,           \* the speaker headers emitted so far, with their text
    probe,            \* what the last call of get_duration did
    clip,             \* the last Segment(start, end) handed to audio.crop
    outcome,          \* how transcribe_with_diarization ended
    response          \* what transcribe_audio answered

vars == <<pipe, embedding_model, pc, audio_path, temp_file, segments, embeddings,
          i, labels, result_text, blocks, probe, clip, outcome, response>>

---------------------------------------------------------------------------
(* Bounds of the model.                                                    *)

TicksPerSec == 2
MaxSegs == 5
Dim == 2

(* Program constants.                                                      *)

num_speakers == 2
DefaultSeconds == 60

---------------------------------------------------------------------------
(* Numbers and strings.                                                    *)

Min(a, b) == IF a <= b THEN a ELSE b

\* a whole number of seconds, in ticks
Secs(n) == n * TicksPerSec

Digit(d) == <<"0", "1", "2", "3", "4", "5", "6", "7", "8", "9">>[d + 1]

RECURSIVE Str(_)
\* str(n) of a non-negative int
Str(n) == IF n < 10 THEN <<Digit(n)>> ELSE Str(n \div 10) \o <<Digit(n % 10)>>

\* "%02d" % n
Str02(n) == IF n < 10 THEN <<"0", Digit(n)>> ELSE Str(n)

\* Python's round() of a float of t ticks: to the nearest int, ties to even
Round(t) ==
    LET q == t \div TicksPerSec
        r == t % TicksPerSec
    IN  IF 2 * r < TicksPerSec THEN q
        ELSE IF 2 * r > TicksPerSec THEN q + 1
        ELSE IF q % 2 = 0 THEN q ELSE q + 1

\* str(datetime.timedelta(seconds=s)) for s >= 0
TimedeltaStr(s) ==
    LET days == s \div 86400
        rem  == s % 86400
        hms  == Str(rem \div 3600) \o <<":">> \o Str02((rem % 3600) \div 60)
                    \o <<":">> \o Str02(rem % 60)
    IN  IF days = 0 THEN hms
        ELSE Str(days) \o <<" ", "d", "a", "y">>
                 \o (IF days = 1 THEN <<>> ELSE <<"s">>) \o <<",", " ">> \o hms

\* str(self.time(secs)), secs given in ticks
Time(t) == TimedeltaStr(Round(t))

Whitespace == {" ", "\n", "\t", "\r"}

RECURSIVE LStrip(_)
LStrip(s) == IF s # <<>> /\ Head(s) \in Whitespace THEN LStrip(Tail(s)) ELSE s

RECURSIVE RStrip(_)
RStrip(s) ==
    IF s # <<>> /\ s[Len(s)] \in Whitespace THEN RStrip(SubSeq(s, 1, Len(s) - 1)) ELSE s

\* str.strip()
Strip(s) == RStrip(LStrip(s))

DropFirstLStrip(s) == LStrip(s)

\* s[1:]
DropFirst(s) == IF s = <<>> THEN <<>> ELSE Tail(s)

\* 'SPEAKER ' + str(label + 1)
SpeakerName(label) == <<"S", "P", "E", "A", "K", "E", "R", " ">> \o Str(label + 1)

---------------------------------------------------------------------------
(* Recordings.  A recording is what the three ways of measuring it give:   *)
(* the container metadata read by librosa.get_duration, the header read by *)
(* wave.open, and the samples decoded by librosa.load.                     *)

MetaReads ==
    {[ok |-> FALSE, duration |-> 0]}
        \cup {[ok |-> TRUE, duration |-> d] : d \in {0, Secs(5), Secs(10)}}

WavReads ==
    {[ok |-> FALSE, frames |-> 0, rate |-> 0]}
        \cup {[ok |-> TRUE, frames |-> f, rate |-> r] :
                  f \in {0, 64000}, r \in {0, 8000}}

Decodes ==
    {[ok |-> FALSE, samples |-> 0, sr |-> 0]}
        \cup {[ok |-> TRUE, samples |-> n, sr |-> 16000] : n \in {0, 112000, 160000}}

Recordings == [meta : MetaReads, wav : WavReads, decode : Decodes]

NoRecording ==
    [meta   |-> [ok |-> FALSE, duration |-> 0],
     wav    |-> [ok |-> FALSE, frames |-> 0, rate |-> 0],
     decode |-> [ok |-> FALSE, samples |-> 0, sr |-> 0]]

---------------------------------------------------------------------------
(* get_duration.  Each strategy either raises or yields a duration.        *)

\* librosa.get_duration(path=audio_path)
StrategyA(rec) == [ok |-> rec.meta.ok, value |-> rec.meta.duration]

\* wave.open; frames / float(rate): a rate of 0 raises ZeroDivisionError
StrategyB(rec) ==
    IF rec.wav.ok /\ rec.wav.rate # 0
    THEN [ok |-> TRUE, value |-> (rec.wav.frames * TicksPerSec) \div rec.wav.rate]
    ELSE [ok |-> FALSE, value |-> 0]

\* librosa.load(audio_path, sr=None); len(audio) / sr
StrategyC(rec) ==
    IF rec.decode.ok
    THEN [ok |-> TRUE, value |-> (rec.decode.samples * TicksPerSec) \div rec.decode.sr]
    ELSE [ok |-> FALSE, value |-> 0]

GetDurationNoDecode(rec) ==
    LET a == StrategyA(rec)
        b == StrategyB(rec)
    IN  IF a.ok THEN [value |-> a.value, by |-> "A", tried |-> <<"A">>, raised |-> FALSE]
        ELSE IF b.ok
        THEN [value |-> b.value, by |-> "B", tried |-> <<"A", "B">>, raised |-> FALSE]
        ELSE [value |-> Secs(DefaultSeconds), by |-> "default",
              tried |-> <<"A", "B">>, raised |-> FALSE]

GetDurationEager(rec) ==
    LET a == StrategyA(rec)
        b == StrategyB(rec)
        c == StrategyC(rec)
    IN  IF a.ok
        THEN [value |-> a.value, by |-> "A", tried |-> <<"A", "B">>, raised |-> FALSE]
        ELSE IF b.ok
        THEN [value |-> b.value, by |-> "B", tried |-> <<"A", "B">>, raised |-> FALSE]
        ELSE IF c.ok
        THEN [value |-> c.value, by |-> "C", tried |-> <<"A", "B", "C">>, raised |-> FALSE]
        ELSE [value |-> Secs(DefaultSeconds), by |-> "default",
              tried |-> <<"A", "B", "C">>, raised |-> FALSE]

\* value: the duration returned, in ticks; by: the branch that returned;
\* tried: the strategies attempted, in order; raised: whether an exception left
GetDuration(rec) ==
    LET a == StrategyA(rec)
        b == StrategyB(rec)
        c == StrategyC(rec)
    IN  IF a.ok THEN [value |-> a.value, by |-> "A", tried |-> <<"A">>, raised |-> FALSE]
        ELSE IF b.ok
        THEN [value |-> b.value, by |-> "B", tried |-> <<"A", "B">>, raised |-> FALSE]
        ELSE IF c.ok
        THEN [value |-> c.value, by |-> "C", tried |-> <<"A", "B", "C">>, raised |-> FALSE]
        ELSE [value |-> Secs(DefaultSeconds), by |-> "default",
              tried |-> <<"A", "B", "C">>, raised |-> FALSE]

NoProbe == [value |-> 0, by |-> "none", tried |-> <<>>, raised |-> FALSE]

---------------------------------------------------------------------------
(* What the recognition pipeline can return.  A chunk is                   *)
(* {"timestamp": (start, end), "text": text}; chunks follow each other in  *)
(* time and the last end may overshoot the recording.                      *)

Words(script) ==
    IF script = 1
    THEN << <<" ", "h", "e", "l", "l", "o">>,
            <<" ", "w", "o", "r", "l", "d">>,
            <<" ", "g", "o", "o", "d", "b", "y", "e">>,
            <<" ", "n", "o", "w">> >>
    ELSE << <<>>, <<"o", "k">>, <<" ">>, <<" ", "a">> >>

\* chunk length in ticks: 2.0 s in script 1, about 1.5 s in script 2
Step(script) == IF script = 1 THEN Secs(2) ELSE Secs(3) \div 2

Scripts == {1, 2}
Overshoots == {0, Secs(1)}

NoSpeaker == <<>>

Chunk(script, n, over, j) ==
    [timestamp |-> <<(j - 1) * Step(script),
                     j * Step(script) + (IF j = n THEN over ELSE 0)>>,
     text      |-> Words(script)[((j - 1) % 4) + 1],
     speaker   |-> NoSpeaker]

Chunks(script, n, over) == [j \in 1..n |-> Chunk(script, n, over, j)]

AsrResults ==
    {Chunks(script, n, over) : script \in Scripts, n \in 0..MaxSegs, over \in Overshoots}

---------------------------------------------------------------------------
(* Floats of the embedding matrix: finite values, NaN, +Inf, -Inf, and the *)
(* largest finite double with either sign.                                 *)

Fin(v) == [kind |-> "finite", v |-> v]
NaN == [kind |-> "nan", v |-> 0]
PosInf == [kind |-> "inf", v |-> 1]
NegInf == [kind |-> "inf", v |-> -1]
FloatMax == [kind |-> "max", v |-> 1]
FloatMin == [kind |-> "max", v |-> -1]

IsFinite(x) == x.kind \in {"finite", "max"}

\* what self.embedding_model(waveform[None]) can return
ModelOutputs ==
    { [d \in 1..Dim |-> IF d % 2 = 1 THEN Fin(d) ELSE Fin(-d)],
      [d \in 1..Dim |-> IF d = 1 THEN NaN ELSE Fin(d)],
      [d \in 1..Dim |-> IF d = 1 THEN PosInf ELSE IF d = Dim THEN NegInf ELSE Fin(0)] }

\* np.zeros(shape=(n, 192))
Zeros(n) == [r \in 1..n |-> [d \in 1..Dim |-> Fin(0)]]

\* np.nan_to_num of one entry, with numpy's defaults nan=0.0, posinf=None,
\* neginf=None: NaN becomes 0, the infinities the largest finite doubles
NanToNum1(x) ==
    IF x.kind = "nan" THEN Fin(0)
    ELSE IF x.kind = "inf" THEN (IF x.v > 0 THEN FloatMax ELSE FloatMin)
    ELSE x

\* np.nan_to_num(embeddings)
NanToNum(m) == [r \in DOMAIN m |-> [d \in DOMAIN m[r] |-> NanToNum1(m[r][d])]]

---------------------------------------------------------------------------
(* AgglomerativeClustering(num_speakers).fit(embeddings).labels_           *)

\* fit validates its input with ensure_min_samples=2 and cannot cut the tree
\* into more clusters than there are samples: either raises ValueError
FitRaises(m) == Len(m) < 2 \/ Len(m) < num_speakers

\* otherwise the tree is cut into exactly num_speakers non-empty clusters
FitLabels(m) ==
    {l \in [1..Len(m) -> 0..(num_speakers - 1)] :
        \A k \in 0..(num_speakers - 1) : \E j \in 1..Len(m) : l[j] = k}

---------------------------------------------------------------------------
(* The merge loop of transcribe_with_diarization.                          *)

NewBlockBug(segs, j) == j = 1 \/ segs[1].speaker # segs[j].speaker

\* i == 0 or segments[i - 1]["speaker"] != segment["speaker"], for the j-th segment
NewBlock(segs, j) == j = 1 \/ segs[j - 1].speaker # segs[j].speaker

HeaderBlankLine(seg) ==
    <<"\n", "\n">> \o seg.speaker \o <<" ">> \o Time(seg.timestamp[1]) \o <<"\n">>

\* "\n" + segment["speaker"] + ' ' + str(self.time(start_time)) + '\n'
Header(seg) == <<"\n">> \o seg.speaker \o <<" ">> \o Time(seg.timestamp[1]) \o <<"\n">>

PieceBug(seg) == seg.text \o <<" ">>

\* segment["text"][1:] + ' '
Piece(seg) == DropFirst(seg.text) \o <<" ">>

---------------------------------------------------------------------------
(* segment_embedding: the clip handed to self.audio.crop.                  *)

ClipOfNoClamp(rec, seg) == [start |-> seg.timestamp[1], end |-> seg.timestamp[2]]

\* start, end = segment["timestamp"]; end = min(self.get_duration(audio_path), end);
\* clip = Segment(start, end)
ClipOf(rec, seg) ==
    [start |-> seg.timestamp[1],
     end   |-> Min(GetDuration(rec).value, seg.timestamp[2])]

NoClip == [start |-> 0, end |-> 0]

---------------------------------------------------------------------------
(* Exceptions, results and responses.                                      *)

NoException == [type |-> "", msg |-> ""]
ModelNotLoaded ==
    [type |-> "RuntimeError",
     msg  |-> "Whisper model not loaded. Please check server startup logs."]
LoadFailed == [type |-> "LibrosaError", msg |-> "cannot decode audio file"]
AsrFailed == [type |-> "PipelineError", msg |-> "recognition failed"]
SaveFailed == [type |-> "OSError", msg |-> "cannot save upload"]
CropFailed == [type |-> "ValueError", msg |-> "requested chunk lies outside of file bounds"]
NotCallable == [type |-> "TypeError", msg |-> "'NoneType' object is not callable"]
TooFewSamples ==
    [type |-> "ValueError",
     msg  |-> "Found array with too few samples while a minimum of 2 is required"]

NoOutcome == [kind |-> "none", text |-> <<>>, exc |-> NoException]
Returned(text) == [kind |-> "return", text |-> text, exc |-> NoException]
Raised(e) == [kind |-> "raise", text |-> <<>>, exc |-> e]

NoResponse == [status |-> 0, error |-> "", details |-> "", text |-> <<>>]

\* the recordings uploaded in the request model: one per way get_duration can go,
\* with metadata that agrees with, falls short of, or is missing from the samples
Upload(m, w, d) == [meta |-> m, wav |-> w, decode |-> d]

Uploads ==
    LET noMeta == [ok |-> FALSE, duration |-> 0]
        noWav  == [ok |-> FALSE, frames |-> 0, rate |-> 0]
        wav8   == [ok |-> TRUE, frames |-> 64000, rate |-> 8000]
        pcm10  == [ok |-> TRUE, samples |-> 160000, sr |-> 16000]
        pcm7   == [ok |-> TRUE, samples |-> 112000, sr |-> 16000]
    IN  { Upload([ok |-> TRUE, duration |-> Secs(10)], wav8, pcm10),
          Upload([ok |-> TRUE, duration |-> Secs(5)], wav8, pcm10),
          Upload([ok |-> TRUE, duration |-> 0], noWav, pcm7),
          Upload(noMeta, wav8, pcm10),
          Upload(noMeta, noWav, pcm7),
          Upload(noMeta, noWav, [ok |-> FALSE, samples |-> 0, sr |-> 0]) }

---------------------------------------------------------------------------
(* WhisperTranscriber.__init__: load_model and load_embedding_model run in *)
(* one try block; a failure is logged and the attribute left None.         *)

Init ==
    /\ \/ pipe = "loaded" /\ embedding_model = "loaded"
       \/ pipe = "loaded" /\ embedding_model = "None"
       \/ pipe = "None" /\ embedding_model = "None"
    /\ pc = "idle"
    /\ audio_path = NoRecording
    /\ temp_file = "none"
    /\ segments = <<>>
    /\ embeddings = <<>>
    /\ i = 0
    /\ labels = <<>>
    /\ result_text = <<>>
    /\ blocks = <<>>
    /\ probe = NoProbe
    /\ clip = NoClip
    /\ outcome = NoOutcome
    /\ response = NoResponse

\* the locals of a request, before it runs
FreshRequest ==
    /\ segments' = <<>>
    /\ embeddings' = <<>>
    /\ i' = 0
    /\ labels' = <<>>
    /\ result_text' = <<>>
    /\ blocks' = <<>>
    /\ probe' = NoProbe
    /\ clip' = NoClip
    /\ outcome' = NoOutcome

\* transcribe_audio up to the call: the 400 answers, the upload saved to a
\* temporary file, or file.save raising after the temporary file was created
\* and before the try/finally that unlinks it
Receive ==
    /\ pc \in {"idle", "responded"}
    /\ FreshRequest
    /\ UNCHANGED <<pipe, embedding_model>>
    /\ \/ /\ response' = [NoResponse EXCEPT !.status = 400,
                                            !.error = "No audio file provided"]
          /\ pc' = "responded"
          /\ audio_path' = NoRecording
          /\ temp_file' = "none"
       \/ /\ response' = [NoResponse EXCEPT !.status = 400, !.error = "No file selected"]
          /\ pc' = "responded"
          /\ audio_path' = NoRecording
          /\ temp_file' = "none"
       \/ /\ \E rec \in Uploads : audio_path' = rec
          /\ temp_file' = "exists"
          /\ response' = NoResponse
          /\ pc' = "call"
       \/ /\ response' = [NoResponse EXCEPT !.status = 500,
                                            !.error = "Transcription failed",
                                            !.details = SaveFailed.msg]
          /\ pc' = "responded"
          /\ audio_path' = NoRecording
          /\ temp_file' = "exists"

\* except Exception as e: logger.error(...); raise e
Raise(e) ==
    /\ outcome' = Raised(e)
    /\ pc' = "finally"

\* transcribe_with_diarization: the pipe check and librosa.load
Load ==
    /\ pc = "call"
    /\ IF pipe = "None" THEN Raise(ModelNotLoaded)
       ELSE IF ~audio_path.decode.ok THEN Raise(LoadFailed)
       ELSE pc' = "asr" /\ UNCHANGED outcome
    /\ UNCHANGED <<pipe, embedding_model, audio_path, temp_file, segments, embeddings,
                   i, labels, result_text, blocks, probe, clip, response>>

\* self.pipe(audio, ..., return_timestamps=True); segments = result["chunks"];
\* embeddings = np.zeros(shape=(len(segments), 192))
Recognize ==
    /\ pc = "asr"
    /\ \/ /\ Raise(AsrFailed)
          /\ UNCHANGED <<segments, embeddings>>
       \/ /\ \E chunks \in AsrResults :
                /\ segments' = chunks
                /\ embeddings' = Zeros(Len(chunks))
          /\ pc' = "embed"
          /\ UNCHANGED outcome
    /\ i' = 0
    /\ UNCHANGED <<pipe, embedding_model, audio_path, temp_file, labels, result_text,
                   blocks, probe, clip, response>>

\* one iteration of: embeddings[i] = self.segment_embedding(audio_path, segment)
EmbedStep ==
    /\ pc = "embed"
    /\ i < Len(segments)
    /\ probe' = GetDuration(audio_path)
    /\ clip' = ClipOf(audio_path, segments[i + 1])
    /\ \/ /\ Raise(CropFailed)
          /\ UNCHANGED <<embeddings, i>>
       \/ /\ embedding_model = "None"
          /\ Raise(NotCallable)
          /\ UNCHANGED <<embeddings, i>>
       \/ /\ embedding_model = "loaded"
          /\ \E v \in ModelOutputs : embeddings' = [embeddings EXCEPT ![i + 1] = v]
          /\ i' = i + 1
          /\ UNCHANGED <<pc, outcome>>
    /\ UNCHANGED <<pipe, embedding_model, audio_path, temp_file, segments, labels,
                   result_text, blocks, response>>

\* embeddings = np.nan_to_num(embeddings)
Sanitize ==
    /\ pc = "embed"
    /\ i = Len(segments)
    /\ embeddings' = NanToNum(embeddings)
    /\ pc' = "cluster"
    /\ UNCHANGED <<pipe, embedding_model, audio_path, temp_file, segments, i, labels,
                   result_text, blocks, probe, clip, outcome, response>>

LabelledReversed(segs, l) ==
    [j \in DOMAIN segs |-> [segs[j] EXCEPT !.speaker = SpeakerName(l[Len(segs) + 1 - j])]]

\* segments[i]["speaker"] = 'SPEAKER ' + str(labels[i] + 1), for every i
Labelled(segs, l) == [j \in DOMAIN segs |-> [segs[j] EXCEPT !.speaker = SpeakerName(l[j])]]

\* AgglomerativeClustering(num_speakers).fit(embeddings), the speaker of every
\* segment set from labels_, and result_text = "".  The matrix is not read after
\* fit and is not tracked further.
Cluster ==
    /\ pc = "cluster"
    /\ IF FitRaises(embeddings)
       THEN /\ Raise(TooFewSamples)
            /\ UNCHANGED <<segments, labels, embeddings>>
       ELSE /\ \E l \in FitLabels(embeddings) :
                  /\ labels' = l
                  /\ segments' = Labelled(segments, l)
            /\ embeddings' = <<>>
            /\ pc' = "merge"
            /\ UNCHANGED outcome
    /\ i' = 0
    /\ result_text' = <<>>
    /\ UNCHANGED <<pipe, embedding_model, audio_path, temp_file, blocks, probe, clip,
                   response>>

\* one iteration of the loop that builds result_text
MergeStep ==
    /\ pc = "merge"
    /\ i < Len(segments)
    /\ LET seg == segments[i + 1]
       IN  IF NewBlock(segments, i + 1)
           THEN /\ result_text' = result_text \o Header(seg) \o Piece(seg)
                /\ blocks' = Append(blocks, [speaker    |-> seg.speaker,
                                             start_time |-> Time(seg.timestamp[1]),
                                             text       |-> Piece(seg)])
           ELSE /\ result_text' = result_text \o Piece(seg)
                /\ blocks' = [blocks EXCEPT ![Len(blocks)].text = @ \o Piece(seg)]
    /\ i' = i + 1
    /\ UNCHANGED <<pipe, embedding_model, pc, audio_path, temp_file, segments,
                   embeddings, labels, probe, clip, outcome, response>>

\* return result_text.strip()
Return ==
    /\ pc = "merge"
    /\ i = Len(segments)
    /\ outcome' = Returned(Strip(result_text))
    /\ pc' = "finally"
    /\ UNCHANGED <<pipe, embedding_model, audio_path, temp_file, segments, embeddings,
                   i, labels, result_text, blocks, probe, clip, response>>

UnlinkOnSuccess ==
    /\ pc = "finally"
    /\ temp_file' = IF outcome.kind = "return" THEN "unlinked" ELSE temp_file
    /\ pc' = "respond"
    /\ UNCHANGED <<pipe, embedding_model, audio_path, segments, embeddings, i, labels,
                   result_text, blocks, probe, clip, outcome, response>>

\* finally: os.unlink(temp_file.name)
Unlink ==
    /\ pc = "finally"
    /\ temp_file' = "unlinked"
    /\ pc' = "respond"
    /\ UNCHANGED <<pipe, embedding_model, audio_path, segments, embeddings, i, labels,
                   result_text, blocks, probe, clip, outcome, response>>

\* the 200 answer with the text, or the 500 answer with str(e)
Respond ==
    /\ pc = "respond"
    /\ response' =
           IF outcome.kind = "return"
           THEN [NoResponse EXCEPT !.status = 200, !.text = outcome.text]
           ELSE [NoResponse EXCEPT !.status = 500, !.error = "Transcription failed",
                                   !.details = outcome.exc.msg]
    /\ pc' = "responded"
    /\ UNCHANGED <<pipe, embedding_model, audio_path, temp_file, segments, embeddings,
                   i, labels, result_text, blocks, probe, clip, outcome>>

Next ==
    \/ Receive
    \/ Load
    \/ Recognize
    \/ EmbedStep
    \/ Sanitize
    \/ Cluster
    \/ MergeStep
    \/ Return
    \/ Unlink
    \/ Respond

Spec == Init /\ [][Next]_vars

---------------------------------------------------------------------------
(* get_duration on its own: called on any recording.                       *)

ProbeInit ==
    /\ pipe = "loaded"
    /\ embedding_model = "loaded"
    /\ pc = "probe"
    /\ audio_path \in Recordings
    /\ temp_file = "exists"
    /\ segments = <<>>
    /\ embeddings = <<>>
    /\ i = 0
    /\ labels = <<>>
    /\ result_text = <<>>
    /\ blocks = <<>>
    /\ probe = NoProbe
    /\ clip = NoClip
    /\ outcome = NoOutcome
    /\ response = NoResponse

CallGetDuration ==
    /\ pc = "probe"
    /\ probe' = GetDuration(audio_path)
    /\ pc' = "probed"
    /\ UNCHANGED <<pipe, embedding_model, audio_path, temp_file, segments, embeddings,
                   i, labels, result_text, blocks, clip, outcome, response>>

ProbeNext == CallGetDuration

ProbeSpec == ProbeInit /\ [][ProbeNext]_vars

---------------------------------------------------------------------------
(* Properties.                                                             *)

RECURSIVE Runs(_, _)
\* the maximal runs of equal labels among the first n labels: the label of
\* each run and the index where it starts
Runs(l, n) ==
    IF n = 0 THEN <<>>
    ELSE IF n > 1 /\ l[n - 1] = l[n] THEN Runs(l, n - 1)
    ELSE Append(Runs(l, n - 1), [label |-> l[n], first |-> n])

\* the number of speaker headers, "\nSPEAKER ", in a text
HeaderCount(text) ==
    Cardinality({p \in 1..Len(text) :
        /\ p + 8 <= Len(text)
        /\ SubSeq(text, p, p + 8) = <<"\n", "S", "P", "E", "A", "K", "E", "R", " ">>})

Merging == pc = "merge" \/ outcome.kind = "return"

\* C1: at every point of the merge loop, and in the transcript returned, there is
\* exactly one block (one speaker header) per maximal run of consecutive equal
\* labels among the segments merged so far, in the order of the runs, each
\* carrying the speaker name of its run's label and the start time of the run's
\* first segment.
C1_OneBlockPerRun ==
    Merging =>
        LET runs == Runs(labels, i)
        IN  /\ Len(blocks) = Len(runs)
            /\ HeaderCount(result_text) = Len(runs)
            /\ \A k \in 1..Len(runs) :
                  /\ blocks[k].speaker = SpeakerName(runs[k].label)
                  /\ blocks[k].start_time = Time(segments[runs[k].first].timestamp[1])

\* labels [0,0,1,1,0] merged into the three blocks 0, 1, 0
C1_Witness ==
    /\ outcome.kind = "return"
    /\ labels = <<0, 0, 1, 1, 0>>
    /\ Len(blocks) = 3
    /\ blocks[1].speaker = SpeakerName(0)
    /\ blocks[2].speaker = SpeakerName(1)
    /\ blocks[3].speaker = SpeakerName(0)

C2_Input ==
    /\ Len(segments) = 4
    /\ \A j \in 1..4 : segments[j].timestamp = <<Secs(2 * (j - 1)), Secs(2 * j)>>
    /\ segments[1].text = <<" ", "h", "e", "l", "l", "o">>
    /\ segments[2].text = <<" ", "w", "o", "r", "l", "d">>
    /\ segments[3].text = <<" ", "g", "o", "o", "d", "b", "y", "e">>
    /\ segments[4].text = <<" ", "n", "o", "w">>
    /\ labels = <<0, 0, 1, 1>>

\* "SPEAKER 1 0:00:00\nhello world \nSPEAKER 2 0:00:04\ngoodbye now"
C2_Expected ==
    <<
        "S", "P", "E", "A", "K", "E", "R", " ", "1", " ", "0", ":", "0", "0", ":", "0",
        "0", "\n", "h", "e", "l", "l", "o", " ", "w", "o", "r", "l", "d", " ", "\n",
        "S", "P", "E", "A", "K", "E", "R", " ", "2", " ", "0", ":", "0", "0", ":", "0",
        "4", "\n", "g", "o", "o", "d", "b", "y", "e", " ", "n", "o", "w" >>

\* C2: the four segments [0,2], [2,4], [4,6], [6,8] s with texts " hello",
\* " world", " goodbye", " now" and labels [0,0,1,1] give exactly two blocks:
\* SPEAKER 1 at 0:00:00 with "hello world ", then SPEAKER 2 at 0:00:04 with
\* "goodbye now".
C2_EndToEnd ==
    (C2_Input /\ outcome.kind = "return") =>
        /\ outcome.text = C2_Expected
        /\ Len(blocks) = 2
        /\ blocks[1].speaker = SpeakerName(0)
        /\ blocks[1].start_time = <<"0", ":", "0", "0", ":", "0", "0">>
        /\ blocks[1].text = <<"h", "e", "l", "l", "o", " ", "w", "o", "r", "l", "d", " ">>
        /\ blocks[2].speaker = SpeakerName(1)
        /\ blocks[2].start_time = <<"0", ":", "0", "0", ":", "0", "4">>
        /\ Strip(blocks[2].text) = <<"g", "o", "o", "d", "b", "y", "e", " ", "n", "o", "w">>

C2_Witness == C2_Input /\ outcome.kind = "return" /\ response.status = 200

\* the request got past recognition and transcribe_with_diarization has ended
EndedAfterAsr ==
    \/ outcome.kind = "return"
    \/ outcome.kind = "raise" /\ outcome.exc \notin {ModelNotLoaded, LoadFailed, AsrFailed}

\* C3: when the recognition returns no segment, transcribe_with_diarization
\* returns the empty transcript and raises nothing.
C3_EmptyGivesEmpty ==
    (EndedAfterAsr /\ Len(segments) = 0) => outcome = Returned(<<>>)

\* the clustering stage has run: it raised, or the merge follows it
Clustered == Merging \/ (outcome.kind = "raise" /\ outcome.exc = TooFewSamples)

\* C4: with at least one segment but fewer than num_speakers, the clustering
\* stage does not raise and gives every segment exactly one label.
C4_FewSegmentsClustered ==
    (Clustered /\ Len(segments) \in 1..(num_speakers - 1)) =>
        /\ outcome.kind # "raise"
        /\ Len(labels) = Len(segments)

\* C5: a single segment whose embedding was extracted gives a transcript of
\* exactly one block, the header line and the text, with no blank line before
\* or after it.
C5_SingleSegmentOneBlock ==
    (Clustered /\ Len(segments) = 1) =>
        /\ outcome.kind = "return"
        /\ Len(blocks) = 1
        /\ HeaderCount(<<"\n">> \o outcome.text) = 1
        /\ outcome.text = Strip(outcome.text)

\* C6: np.nan_to_num turns exactly the NaN, +Inf and -Inf entries of the matrix
\* into zero and leaves every finite entry as it was.
C6_NonFiniteToZero ==
    [][(pc = "embed" /\ pc' = "cluster") =>
          \A r \in DOMAIN embeddings : \A d \in DOMAIN embeddings[r] :
              /\ IsFinite(embeddings'[r][d])
              /\ embeddings'[r][d] =
                     IF IsFinite(embeddings[r][d]) THEN embeddings[r][d] ELSE Fin(0)]_vars

\* what each strategy does on the recording probed, read off the recording
MetaFails == ~audio_path.meta.ok
WaveFails == ~audio_path.wav.ok \/ audio_path.wav.rate = 0
DecodeFails == ~audio_path.decode.ok

\* C7: get_duration raises nothing; it tries A first, B only after A failed,
\* C only after A and B failed; it returns through the default branch, with
\* 60.0, exactly when all three failed, and otherwise returns the value of the
\* first strategy that succeeded.
C7_FallbackChain ==
    pc = "probed" =>
        /\ ~probe.raised
        /\ probe.tried =
               IF ~MetaFails THEN <<"A">>
               ELSE IF ~WaveFails THEN <<"A", "B">> ELSE <<"A", "B", "C">>
        /\ probe.by = "default" <=> (MetaFails /\ WaveFails /\ DecodeFails)
        /\ probe.by = "default" => probe.value = Secs(60)
        /\ ~MetaFails => probe.by = "A" /\ probe.value = audio_path.meta.duration
        /\ (MetaFails /\ ~WaveFails) =>
               /\ probe.by = "B"
               /\ probe.value * audio_path.wav.rate = audio_path.wav.frames * TicksPerSec
        /\ (MetaFails /\ WaveFails /\ ~DecodeFails) =>
               /\ probe.by = "C"
               /\ probe.value * audio_path.decode.sr
                      = audio_path.decode.samples * TicksPerSec

\* the metadata read and the wave header fail, the full decode answers
C7_Witness ==
    /\ pc = "probed"
    /\ MetaFails /\ WaveFails /\ ~DecodeFails
    /\ probe.by = "C"
    /\ probe.tried = <<"A", "B", "C">>
    /\ probe.value > 0

\* C8: whatever strategy answers, get_duration returns a value greater than 0.
C8_DurationPositive == pc = "probed" => probe.value > 0

\* C9 as claimed: when the metadata read and the wave header both fail,
\* get_duration returns the default 60.0.
C9_TwoFailuresGiveDefault ==
    (pc = "probed" /\ MetaFails /\ WaveFails) => probe.value = Secs(60)

\* C9, amended: when the metadata read, the wave header and the full decode all
\* fail, get_duration returns the default 60.0; when only the first two fail it
\* returns what the full decode measured.
C9_ThreeFailuresGiveDefault ==
    (pc = "probed" /\ MetaFails /\ WaveFails) =>
        IF DecodeFails
        THEN probe.value = Secs(60) /\ probe.by = "default"
        ELSE /\ probe.by = "C"
             /\ probe.value * audio_path.decode.sr = audio_path.decode.samples * TicksPerSec

C9_Witness ==
    /\ pc = "probed"
    /\ MetaFails /\ WaveFails /\ DecodeFails
    /\ probe.by = "default"
    /\ probe.value = Secs(60)

\* the segment segment_embedding was last called on, 0 if none
LastEmbedded ==
    IF pc \in {"embed", "cluster"} THEN i
    ELSE IF outcome.kind = "raise" /\ outcome.exc \in {CropFailed, NotCallable} THEN i + 1
    ELSE 0

\* C10: the clip segment_embedding asks audio.crop for starts at the segment's
\* start and ends at min(segment end, probed duration): never after the probed
\* duration, and at the segment's end when that does not exceed it.
C10_CropClamped ==
    LastEmbedded > 0 =>
        LET seg == segments[LastEmbedded]
        IN  /\ clip.start = seg.timestamp[1]
            /\ clip.end <= probe.value
            /\ clip.end <= seg.timestamp[2]
            /\ seg.timestamp[2] <= probe.value => clip.end = seg.timestamp[2]
            /\ seg.timestamp[2] > probe.value => clip.end = probe.value

\* a last segment overshooting the probed duration, cropped at the duration
C10_Witness ==
    /\ pc = "embed"
    /\ i = Len(segments)
    /\ i > 0
    /\ segments[i].timestamp[2] > probe.value
    /\ probe.value > segments[i].timestamp[1]
    /\ clip.end = probe.value
    /\ embeddings[i] \in ModelOutputs

\* C11: once the clustering stage has returned, there is exactly one label per
\* segment, each an integer in [0, num_speakers), and segment j carries the
\* speaker name of label j, one of 'SPEAKER 1' .. 'SPEAKER num_speakers'.
C11_OneLabelPerSegment ==
    Merging =>
        /\ Len(labels) = Len(segments)
        /\ \A j \in 1..Len(segments) :
              /\ labels[j] \in 0..(num_speakers - 1)
              /\ segments[j].speaker
                     = <<"S", "P", "E", "A", "K", "E", "R", " ">> \o Str(labels[j] + 1)
              /\ segments[j].speaker
                     \in {<<"S", "P", "E", "A", "K", "E", "R", " ", "1">>,
                          <<"S", "P", "E", "A", "K", "E", "R", " ", "2">>}

\* three segments labelled 1, 0, 0: SPEAKER 2, SPEAKER 1, SPEAKER 1
C11_Witness ==
    /\ pc = "merge"
    /\ labels = <<1, 0, 0>>
    /\ segments[1].speaker = <<"S", "P", "E", "A", "K", "E", "R", " ", "2">>
    /\ segments[3].speaker = <<"S", "P", "E", "A", "K", "E", "R", " ", "1">>

ModelMissing == pipe = "None" \/ embedding_model = "None"

\* the stages that can fail on their own account, whatever the models' state
StageFailures == {LoadFailed, AsrFailed, CropFailed, TooFewSamples}

\* C12: when the recognition model or the embedding model did not load, a
\* diarization request never returns a transcript, and unless one of its stages
\* failed on the input first, the error it raises is the 'model not loaded'
\* error.
C12_ModelNotReadySurfaced ==
    (ModelMissing /\ outcome.kind # "none") =>
        /\ outcome.kind = "raise"
        /\ outcome.exc \notin StageFailures => outcome.exc = ModelNotLoaded

\* the places of a text where a speaker header line starts
HeaderStarts(text) ==
    {p \in 1..Len(text) :
        /\ p + 7 <= Len(text)
        /\ SubSeq(text, p, p + 7) = <<"S", "P", "E", "A", "K", "E", "R", " ">>
        /\ p > 1 => text[p - 1] = "\n"}

Unpadded(text) ==
    text # <<>> => (text[1] \notin Whitespace /\ text[Len(text)] \notin Whitespace)

\* C13 as claimed: in the transcript returned, every speaker header but the first
\* is preceded by exactly one blank line, that is by an empty line between the
\* previous block's text and the header, and the transcript has no leading or
\* trailing whitespace.
C13_BlankLineBeforeHeader ==
    outcome.kind = "return" =>
        /\ Unpadded(outcome.text)
        /\ \A p \in HeaderStarts(outcome.text) :
              p > 1 =>
                  /\ p > 3
                  /\ outcome.text[p - 1] = "\n"
                  /\ outcome.text[p - 2] = "\n"
                  /\ outcome.text[p - 3] # "\n"

\* C13, amended: in the transcript returned, every speaker header but the first
\* starts on the line right after the previous block's text: it is preceded by
\* exactly one newline, which follows the space appended to the previous
\* segment's text, so no blank line separates the blocks; there is one header
\* line per block and the transcript has no leading or trailing whitespace.
C13_NewlineBeforeHeader ==
    outcome.kind = "return" =>
        /\ Unpadded(outcome.text)
        /\ Cardinality(HeaderStarts(outcome.text)) = Len(blocks)
        /\ 1 \in HeaderStarts(outcome.text)
        /\ \A p \in HeaderStarts(outcome.text) :
              p > 1 =>
                  /\ p > 3
                  /\ outcome.text[p - 1] = "\n"
                  /\ outcome.text[p - 2] = " "

\* a transcript of three blocks
C13_Witness ==
    /\ outcome.kind = "return"
    /\ Len(blocks) = 3
    /\ Cardinality(HeaderStarts(outcome.text)) = 3

RECURSIVE Pieces(_, _)
\* the texts of the first n segments, each without its first character and
\* followed by one space, one after the other
Pieces(segs, n) ==
    IF n = 0 THEN <<>>
    ELSE Pieces(segs, n - 1) \o SubSeq(segs[n].text, 2, Len(segs[n].text)) \o <<" ">>

RECURSIVE BlockTexts(_, _)
\* the texts of the first n blocks, one after the other
BlockTexts(bs, n) == IF n = 0 THEN <<>> ELSE BlockTexts(bs, n - 1) \o bs[n].text

RECURSIVE Render(_, _)
\* the first n blocks, each as "\n" + speaker + " " + start time + "\n" + text
Render(bs, n) ==
    IF n = 0 THEN <<>>
    ELSE Render(bs, n - 1) \o <<"\n">> \o bs[n].speaker \o <<" ">> \o bs[n].start_time
             \o <<"\n">> \o bs[n].text

\* C15: at every point of the merge loop the text built so far is, apart from
\* the headers, the texts of the segments merged so far, each with its first
\* character dropped and one space appended, in segment order, none skipped or
\* repeated; a segment with the label of the one before it adds no header; and
\* the transcript returned is that text with only its two ends stripped.
C15_TextInOnePass ==
    Merging =>
        /\ BlockTexts(blocks, Len(blocks)) = Pieces(segments, i)
        /\ result_text = Render(blocks, Len(blocks))
        /\ HeaderCount(result_text)
               = Cardinality({j \in 1..i : j = 1 \/ labels[j] # labels[j - 1]})
        /\ outcome.kind = "return" =>
              /\ i = Len(segments)
              /\ outcome.text = Strip(result_text)

\* a transcript whose segments include an empty text and one with no leading
\* space, the second continuing the block of the first
C15_Witness ==
    /\ outcome.kind = "return"
    /\ Len(segments) >= 3
    /\ segments[1].text = <<>>
    /\ segments[2].text = <<"o", "k">>
    /\ labels[1] = labels[2]
    /\ labels[3] # labels[2]
    /\ blocks[1].text = <<" ", "k", " ">>

====
